---------------------------- MODULE Spec2Model ----------------------------
(***************************************************************************)
(* clgrp_ell: the MPI coordinator/worker batch scheduler of                *)
(* clgrp_ell_main.c and the file processor of reproduce_loop.c             *)
(* (process_clgrp_file, verify_input_files_exist).                         *)
(*                                                                         *)
(* Rank 0 is the coordinator ("master"), ranks 1..size-1 are the workers.  *)
(* A file is named by its index: for a fixed folder, a, m and ell the      *)
(* path  folder/cl{a}mod{m}/cl{a}mod{m}.{i}.gz  is injective in i.         *)
(*                                                                         *)
(* Spec, FairSpec and FairSpecEager run the scheduler; SpecFile applies    *)
(* process_clgrp_file to a folder call by call; SpecRecord follows the     *)
(* record loop of one call line by line, after the worker's startup code.  *)
(***************************************************************************)
EXTENDS Integers, Sequences, FiniteSets, TLC

(* ------------------------------ bounds -------------------------------- *)
\* largest number of workers (MPI_Comm_size - 1) explored
MaxW == 2
\* largest value of the command-line argument `files` explored
MaxF == 3
\* largest number of I/O failures the environment injects in one run
MaxFaults == 1
\* largest number of records (lines) an input file holds
MaxRecords == 1
\* largest number of direct process_clgrp_file calls in the file harness
MaxCalls == 2
\* largest number of lines read in the record harness
MaxLines == 2
\* largest prime_bound of the runs explored
MaxPrimeBound == 180

(* ------------------------- program constants -------------------------- *)
\* clgrp_ell_main.c:16   if (argc != 7)
ArgcExpected == 7
\* clgrp_ell_main.c:89   idx = -1, the termination signal
Sentinel == -1

Last(s) == s[Len(s)]
Max(x, y) == IF x > y THEN x ELSE y
Min(x, y) == IF x < y THEN x ELSE y

\* ranks of MPI_COMM_WORLD that may exist; 0 is the coordinator
Procs == 0 .. MaxW
WorkerRanks == 1 .. MaxW
\* file indices that can be named in a run: the first loop of the
\* coordinator sends 0..num_procs-1, the second num_procs..files-1
FileIdx == 0 .. (Max(MaxW, MaxF) - 1)

VARIABLES
    argc,      \* argument count seen by every process
    size,      \* MPI_Comm_size: total number of processes
    files,     \* atol(argv[2])
    sync,      \* TRUE: MPI_Send completes only on a posted matching receive
               \* (rendezvous); FALSE: the library buffers the int (eager)
    fs,        \* the folder: inp, gz, raw (sets of indices), dir
    faults,    \* I/O failures injected so far
    pc,        \* pc[r]: position of rank r in main
    i,         \* the coordinator's loop counter i
    idx,       \* idx[r]: the variable idx of rank r
    status,    \* status[r]: exit status of rank r (-1 while it runs)
    chan,      \* chan[w]: messages from rank 0 to worker w, in flight
    rep,       \* rep[w]: messages from worker w to rank 0, in flight
    sentLog,   \* history: [to, val, phase] of every MPI_Send of rank 0
    ackLog,    \* history: the payloads rank 0 has received, in order
    recvLog,   \* history: recvLog[w], the values worker w has received
    reports,   \* history: reports[w], number of reports worker w has sent
    calls,     \* history: calls[w], the process_clgrp_file calls of w
    par,       \* the arguments D_max, a, m, ell, and h_bound, the value
               \* the expression of clgrp_ell_main.c:100 has for D_max
    h_factors, \* h_factors[w]: the factor table of worker w
    h_max_factors, \* h_max_factors[w]: the row length of that table
    builds,    \* history: builds[w], how often worker w built its table
    reported,  \* history: the indices printed as "Missing input file"
    rec        \* the locals of one process_clgrp_file call in the record
               \* harness

vars == <<argc, size, files, sync, fs, faults, pc, i, idx, status,
          chan, rep, sentLog, ackLog, recvLog, reports, calls,
          par, h_factors, h_max_factors, builds, reported, rec>>

config == <<argc, size, files, sync, par>>
hist   == <<sentLog, ackLog, recvLog, reports, calls>>
tables == <<h_factors, h_max_factors, builds>>

\* num_procs after  num_procs--  (clgrp_ell_main.c:64-66)
num_procs == size - 1

\* clgrp_ell_main.c:36  D_total = D_max / (files * m)
D_total == par.D_max \div (files * par.m)

(* ----------------------------- arguments ------------------------------ *)
\* the arguments of the scheduler runs: D_max = 32, a = 3, m = 8, ell = 2;
\* h_bound is the value of the expression of clgrp_ell_main.c:100 for D_max
RunPar == [D_max |-> 32, a |-> 3, m |-> 8, ell |-> 2, h_bound |-> 5]

\* the arguments explored in the record harness
RecPars ==
    { [D_max |-> 192, a |-> 4, m |-> 8, ell |-> 3, h_bound |-> 15],
      [D_max |-> 16, a |-> 7, m |-> 8, ell |-> 3, h_bound |-> 3],
      [D_max |-> 96, a |-> 7, m |-> 8, ell |-> 2, h_bound |-> 10],
      RunPar }

(* ------------------- worker startup: sieve and table ------------------ *)
\* (long) sqrt(n) for the magnitudes explored
Isqrt(n) ==
    CHOOSE r \in 0 .. MaxPrimeBound : r * r <= n /\ n < (r + 1) * (r + 1)

\* clgrp_ell_main.c:99-101: the class-number bound times ell (ell + 1)
h_max_of(p) == p.h_bound * (p.ell * (p.ell + 1))
h_max == h_max_of(par)

\* clgrp_ell_main.c:105-106
D_root(p) == Isqrt(p.D_max * p.ell * p.ell * p.ell * p.ell)
prime_bound(p) ==
    IF D_root(p) > h_max_of(p) THEN D_root(p) ELSE h_max_of(p)

IsPrime(n) == n >= 2 /\ \A d \in 2 .. n - 1 : n % d # 0

\* the primes from k up to bound in increasing order
RECURSIVE primes_from(_, _)
primes_from(k, bound) ==
    IF k > bound THEN <<>>
    ELSE IF IsPrime(k) THEN <<k>> \o primes_from(k + 1, bound)
    ELSE primes_from(k + 1, bound)

\* the primes up to MaxPrimeBound in increasing order
SievedPrimes ==
    primes_from(2, MaxPrimeBound \div 2)
      \o primes_from(MaxPrimeBound \div 2 + 1, MaxPrimeBound)

\* prime_sieve(bound, primes): primes[1], primes[2], ... are the primes up
\* to bound in increasing order (primes[0], their number, is Len here)
prime_sieve(bound) == SelectSeq(SievedPrimes, LAMBDA p : p <= bound)

\* clgrp_ell_main.c:112-118: the loop  for (i = 1; temp < h_max; i++)
\* temp *= primes[i];  its result is the value i has when the test fails
RECURSIVE factor_loop(_, _, _, _)
factor_loop(k, temp, hmax, primes) ==
    IF temp < hmax THEN factor_loop(k + 1, temp * primes[k], hmax, primes)
    ELSE k

\* mutant: the number of primes multiplied, not the final value of i
count_primes_multiplied(hmax, primes) == factor_loop(1, 1, hmax, primes) - 1

\* clgrp_ell_main.c:120  const int h_max_factors = i
count_h_max_factors(hmax, primes) == factor_loop(1, 1, hmax, primes)

\* row n of the factor table: the distinct primes dividing n in increasing
\* order (row[0] of the code, their number, is Len here)
SievedRows ==
    [n \in 0 .. MaxPrimeBound |->
        IF n = 0 THEN <<>> ELSE SelectSeq(SievedPrimes, LAMBDA p : n % p = 0)]

\* clgrp_ell_main.c:121-128: hmax rows, indices 0 .. hmax - 1
regular_sieve(hmax, primes) == [n \in 0 .. hmax - 1 |-> SievedRows[n]]

\* clgrp_ell_main.c:98-128 for the arguments p: the sieve, the count of
\* line 120 and the factor table
worker_startup(p) ==
    LET primes == prime_sieve(prime_bound(p))
    IN  [h_max_factors |-> count_h_max_factors(h_max_of(p), primes),
         h_factors |-> regular_sieve(h_max_of(p), primes)]

\* worker_startup for each of the arguments explored
Startup == [p \in RecPars |-> worker_startup(p)]

(* --------------------------- record analysis -------------------------- *)
\* kronecker_symbol(a, p) for p = 2 and for an odd prime p
kronecker_symbol(a, p) ==
    IF p = 2
    THEN IF a % 2 = 0 THEN 0
         ELSE IF a % 8 \in {1, 7} THEN 1 ELSE -1
    ELSE IF a % p = 0 THEN 0
         ELSE IF \E x \in 1 .. p - 1 : (x * x) % p = a % p THEN 1 ELSE -1

\* mutant: the inert and the split multiplier exchanged
h_multiplier_swapped(kron, ell) ==
    CASE kron = 0  -> ell
      [] kron = -1 -> (ell - 1) * ell
      [] kron = 1  -> (ell + 1) * ell
      [] OTHER     -> 1

\* reproduce_loop.c:190-202: the factor h is multiplied by
h_multiplier(kron, ell) ==
    CASE kron = 0  -> ell
      [] kron = -1 -> (ell + 1) * ell
      [] kron = 1  -> (ell - 1) * ell
      [] OTHER     -> 1

\* reproduce_loop.c:190-202: the factor D_sub is multiplied by
D_multiplier(kron, ell) ==
    CASE kron = 0  -> ell * ell
      [] kron = -1 -> ell * ell * ell * ell
      [] kron = 1  -> ell * ell * ell * ell
      [] OTHER     -> 1

\* mutant: the test made the other way round
divides_again(h_temp, h_fac) == h_temp % h_fac = 0

\* reproduce_loop.c:217  if (h_temp % h_fac != 0)
not_divides_again(h_temp, h_fac) == h_temp % h_fac # 0

\* reproduce_loop.c:204-221: the loop over row[1 .. row[0]] from position k
\* on; h_temp is divided by every listed prime in turn (the quotients are
\* exact or of non-negative numbers, so C's division is \div)
RECURSIVE init_pow_loop(_, _, _, _)
init_pow_loop(row, k, h_temp, init_pow) ==
    IF k > Len(row) THEN init_pow
    ELSE LET h_fac == row[k]
             t     == h_temp \div h_fac
         IN  init_pow_loop(row, k + 1, t,
                           IF not_divides_again(t, h_fac)
                           THEN init_pow * h_fac ELSE init_pow)

compute_init_pow(h, row) == init_pow_loop(row, 1, h, 1)

\* mutant: the distance added without the modulus
next_D_unscaled(D, dist) == D + dist

\* reproduce_loop.c:184  D += (long) dist * m
next_D(D, dist) == D + dist * par.m

\* reproduce_loop.c:149  long D = (long) index * D_total * m + a
start_D(index) == index * D_total * par.m + par.a

\* mutant: the factor table released at the end of a call
factors_freed(tab) == <<>>

\* reproduce_loop.c:203-221: the only use a call makes of h_factors is the
\* read through  const int * h_cur_factors ; the table after the call
factors_after_call(tab) == tab

\* mutant: the last entry rescaled
rescale_last(result, init_pow) ==
    [result EXCEPT ![Len(result)] = @ * init_pow]

\* reproduce_loop.c:228  result[1] *= init_pow
rescale(result, init_pow) == [result EXCEPT ![1] = @ * init_pow]

(* ---------------------- verify_input_files_exist ---------------------- *)
\* the loop of verify_input_files_exist from index k on: <<result, path
\* reported missing>>, the path given by its index (-1: none reported)
RECURSIVE verify_from(_, _, _)
verify_from(inputs, nfiles, k) ==
    IF k >= nfiles THEN <<1, -1>>
    ELSE IF k \notin inputs THEN <<0, k>>
    ELSE verify_from(inputs, nfiles, k + 1)

\* mutant: the loop started at index 1
verify_skip_first(inputs, nfiles) == verify_from(inputs, nfiles, 1)

\* mutant: the highest missing index reported
verify_report_highest(inputs, nfiles) ==
    LET miss == {k \in 0 .. nfiles - 1 : k \notin inputs}
    IN  IF miss = {} THEN <<1, -1>>
        ELSE <<0, CHOOSE k \in miss : \A j \in miss : j <= k>>

verify_input_files_exist(inputs, nfiles) == verify_from(inputs, nfiles, 0)

(* ------------------------- process_clgrp_file ------------------------- *)
\* what the environment answers to one call: popen, mkdir, fopen and the
\* gzip command each succeed or fail
EnvOK == [popen |-> TRUE, mkdir |-> TRUE, fopen |-> TRUE, gzip |-> TRUE]
Envs ==
    { EnvOK,
      [EnvOK EXCEPT !.popen = FALSE],
      [EnvOK EXCEPT !.mkdir = FALSE],
      [EnvOK EXCEPT !.fopen = FALSE],
      [EnvOK EXCEPT !.gzip = FALSE] }

\* the two per-file I/O failures: popen or fopen returned NULL
IOFailed == {"noinput", "nooutput"}

\* the result of a call that returns before touching anything
NoEffect(f, r) ==
    [fs |-> f, ret |-> r, popen |-> FALSE, htab |-> 0, mkdir |-> FALSE,
     fopen |-> FALSE, oracle |-> 0, gzip |-> FALSE, fault |-> FALSE,
     htab_init |-> 0, bound |-> 0, infd |-> 0]

\* mutant: the existence check made on the uncompressed output name
OutputExistsRaw(index, f) == index \in f.raw

\* reproduce_loop.c:100-102: access(".../cl..l..{index}.gz", F_OK) != -1
OutputExists(index, f) == index \in f.gz

\* mutant: the tables sized from the bound of the whole run
run_D_max(index) == par.D_max

\* reproduce_loop.c:121  long D_max = (index + 1) * D_total * m
file_D_max(index) == (index + 1) * D_total * par.m

\* reproduce_loop.c:123: the argument of h_upper_bound, from which the
\* size of R and Q is derived
htab_bound(index) ==
    -(file_D_max(index) * par.ell * par.ell * par.ell * par.ell)

\* the number of records (lines) of input file index in the modelled
\* folder: file 0 is empty, file 1 holds one record, ...
Records(index) == index % (MaxRecords + 1)

\* reproduce_loop.c:108-257, the call once the output is known not to exist:
\* gunzip of a missing input prints an error and yields an empty stream;
\* the return at 145 follows pclose(infd) but no htab_clear, the normal end
\* runs pclose (249) and both htab_clear (256-257)
ProcessNew(index, f, e) ==
    IF ~e.popen
    THEN [NoEffect(f, "noinput") EXCEPT !.popen = TRUE, !.fault = TRUE]
    ELSE
      LET dir1  == f.dir \/ e.mkdir
          lines == IF index \in f.inp THEN Records(index) ELSE 0
      IN  IF ~(dir1 /\ e.fopen)
          THEN [fs |-> [f EXCEPT !.dir = dir1], ret |-> "nooutput",
                popen |-> TRUE, htab |-> 2, mkdir |-> TRUE, fopen |-> TRUE,
                oracle |-> 0, gzip |-> FALSE, fault |-> TRUE,
                htab_init |-> 2, bound |-> htab_bound(index), infd |-> 0]
          ELSE [fs |-> [f EXCEPT !.dir = dir1,
                                 !.raw = IF e.gzip THEN @ \ {index}
                                                   ELSE @ \cup {index},
                                 !.gz  = IF e.gzip THEN @ \cup {index}
                                                   ELSE @],
                ret |-> "done", popen |-> TRUE, htab |-> 0, mkdir |-> TRUE,
                fopen |-> TRUE, oracle |-> lines, gzip |-> TRUE,
                fault |-> ~e.gzip,
                htab_init |-> 2, bound |-> htab_bound(index), infd |-> 0]

\* process_clgrp_file(index, ...) on folder state f with environment e:
\* the folder afterwards (fs), the return
\* path taken (ret), whether popen, mkdir, fopen and gzip were called, the
\* number of oracle invocations (oracle), and the number of hash tables
\* left initialised on return (htab), the number of htab_init calls
\* (htab_init), the bound they were sized from (bound) and the number of
\* input streams left open on return (infd: pclose at 144 and at 249)
process_clgrp_file(index, f, e) ==
    IF OutputExists(index, f)
    THEN NoEffect(f, "skipped")
    ELSE ProcessNew(index, f, e)

(* ------------------------------- MPI ---------------------------------- *)
\* MPI_Send(.., dest = w, ..) of rank 0 can complete
CanSendToWorker(w) == sync => (pc[w] = "recv" /\ chan[w] = <<>>)

\* MPI_Send(.., dest = 0, ..) of a worker can complete
CanSendToMaster ==
    sync => (pc[0] = "dist_recv" /\ \A v \in WorkerRanks : rep[v] = <<>>)

\* the test of the first loop after i++ :  i < num_procs
InitContinues(next) == next < num_procs

\* mutant: the second loop stopped one index early
DistContinuesShort(next) == next + 1 < files

\* the test of the second loop:  i < files
DistContinues(next) == next < files

\* mutant: the second loop sending idx, the rank received, as the payload
DistPayloadIdx == idx[0]

\* the payload of the send in the second loop:  &i
DistPayload == i

\* mutant: the second loop assigning round-robin, whoever reported
DistDestRoundRobin == (i % num_procs) + 1

\* the destination of the send in the second loop: the payload received
DistDest == idx[0]

\* mutant: the sentinel addressed to rank i, a worker counted from 1
TermDestRank == IF i = 0 THEN 1 ELSE i

\* the destination of the send in the third loop:  i + 1
TermDest == i + 1

\* mutant: the loop body entered for the sentinel too
WorkerAlwaysProcess(v) == "process"

\* the worker's loop test  while (idx != -1)
WorkerAfterRecv(v) == IF v # Sentinel THEN "process" ELSE "done"

\* mutant: a per-file I/O failure ending the worker, as exit(1) would
WorkerExitOnFailure(ret) == IF ret \in IOFailed THEN "exited" ELSE "send"

\* process_clgrp_file is void and every return path modelled here returns
\* to the caller, which goes on to line 137
WorkerAfterProcess(ret) == "send"

(* ------------------------------- Init --------------------------------- *)
\* no process_clgrp_file call is being followed record by record
RecIdle == [state |-> "idle"]

Init ==
    /\ argc \in {ArgcExpected - 1, ArgcExpected, ArgcExpected + 1}
    /\ size \in 1 .. (MaxW + 1)
    /\ files \in 1 .. MaxF
    /\ sync \in BOOLEAN
    /\ \E inputs \in SUBSET FileIdx, done \in {{}, {0}} :
         fs = [inp |-> inputs, gz |-> done, raw |-> {},
               dir |-> (done # {})]
    /\ faults = 0
    /\ pc = [r \in Procs |-> IF r < size THEN "start" ELSE "absent"]
    /\ i = 0
    /\ idx = [r \in Procs |-> 0]
    /\ status = [r \in Procs |-> -1]
    /\ chan = [w \in WorkerRanks |-> <<>>]
    /\ rep = [w \in WorkerRanks |-> <<>>]
    /\ sentLog = <<>>
    /\ ackLog = <<>>
    /\ recvLog = [w \in WorkerRanks |-> <<>>]
    /\ reports = [w \in WorkerRanks |-> 0]
    /\ calls = [w \in WorkerRanks |-> <<>>]
    /\ par = RunPar
    /\ h_factors = [w \in WorkerRanks |-> <<>>]
    /\ h_max_factors = [w \in WorkerRanks |-> 0]
    /\ builds = [w \in WorkerRanks |-> 0]
    /\ reported = <<>>
    /\ rec = RecIdle

(* ---------------------------- coordinator ----------------------------- *)
\* clgrp_ell_main.c:14-45, rank 0: the argument check
MasterArgs ==
    /\ pc[0] = "start"
    /\ IF argc # ArgcExpected
       THEN /\ pc' = [pc EXCEPT ![0] = "exited"]
            /\ status' = [status EXCEPT ![0] = 1]
       ELSE /\ pc' = [pc EXCEPT ![0] = "verify"]
            /\ UNCHANGED status
    /\ UNCHANGED <<config, tables, reported, rec,
                   fs, faults, i, idx, chan, rep, hist>>

\* clgrp_ell_main.c:54-62: verify the inputs; MPI_Abort ends every process
MasterVerify ==
    /\ pc[0] = "verify"
    /\ IF verify_input_files_exist(fs.inp, files)[1] = 0
       THEN /\ pc' = [r \in Procs |->
                        IF pc[r] \in {"absent", "exited"} THEN pc[r]
                        ELSE "aborted"]
            /\ status' = [r \in Procs |->
                        IF pc[r] \in {"absent", "exited"} THEN status[r]
                        ELSE 1]
            /\ reported' = Append(reported,
                                  verify_input_files_exist(fs.inp, files)[2])
       ELSE /\ pc' = [pc EXCEPT ![0] = "size"]
            /\ UNCHANGED <<status, reported>>
    /\ UNCHANGED <<config, tables, rec, fs, faults, i, idx, chan, rep, hist>>

\* clgrp_ell_main.c:64-73: at least one worker is needed
MasterSize ==
    /\ pc[0] = "size"
    /\ IF num_procs = 0
       THEN /\ pc' = [pc EXCEPT ![0] = "exited"]
            /\ status' = [status EXCEPT ![0] = 1]
            /\ UNCHANGED i
       ELSE /\ pc' = [pc EXCEPT ![0] = "init"]
            /\ i' = 0
            /\ UNCHANGED status
    /\ UNCHANGED <<config, tables, reported, rec,
                   fs, faults, idx, chan, rep, hist>>

\* the loop header of clgrp_ell_main.c:89 when rank 0 reaches it:
\* i = 0, idx = -1
EnterTerm ==
    /\ pc' = [pc EXCEPT ![0] = "term"]
    /\ i' = 0
    /\ idx' = [idx EXCEPT ![0] = Sentinel]

\* clgrp_ell_main.c:75-79: send index i to worker i + 1, i++, and the
\* loop tests that follow
MasterInitSend ==
    /\ pc[0] = "init"
    /\ CanSendToWorker(i + 1)
    /\ chan' = [chan EXCEPT ![i + 1] = Append(@, i)]
    /\ sentLog' = Append(sentLog, [to |-> i + 1, val |-> i, phase |-> "init"])
    /\ IF InitContinues(i + 1)
       THEN i' = i + 1 /\ UNCHANGED <<pc, idx>>
       ELSE IF DistContinues(i + 1)
            THEN /\ i' = i + 1
                 /\ pc' = [pc EXCEPT ![0] = "dist_recv"]
                 /\ UNCHANGED idx
            ELSE EnterTerm
    /\ UNCHANGED <<config, tables, reported, rec,
                   fs, faults, status, rep, ackLog, recvLog,
                   reports, calls>>

\* clgrp_ell_main.c:84: MPI_Recv from MPI_ANY_SOURCE into idx
MasterDistRecv ==
    /\ pc[0] = "dist_recv"
    /\ \E w \in WorkerRanks :
         /\ rep[w] # <<>>
         /\ idx' = [idx EXCEPT ![0] = Head(rep[w])]
         /\ rep' = [rep EXCEPT ![w] = Tail(@)]
    /\ ackLog' = Append(ackLog, idx'[0])
    /\ pc' = [pc EXCEPT ![0] = "dist_send"]
    /\ UNCHANGED <<config, tables, reported, rec,
                   fs, faults, i, status, chan, sentLog, recvLog,
                   reports, calls>>

\* clgrp_ell_main.c:85: send index i to the worker that reported, i++,
\* and the loop test
MasterDistSend ==
    /\ pc[0] = "dist_send"
    /\ DistDest \in WorkerRanks
    /\ CanSendToWorker(DistDest)
    /\ chan' = [chan EXCEPT ![DistDest] = Append(@, DistPayload)]
    /\ sentLog' = Append(sentLog, [to |-> DistDest, val |-> DistPayload,
                                   phase |-> "dist"])
    /\ IF DistContinues(i + 1)
       THEN /\ i' = i + 1
            /\ pc' = [pc EXCEPT ![0] = "dist_recv"]
            /\ UNCHANGED idx
       ELSE EnterTerm
    /\ UNCHANGED <<config, tables, reported, rec,
                   fs, faults, status, rep, ackLog, recvLog,
                   reports, calls>>

\* clgrp_ell_main.c:89-92: send idx (-1) to worker i + 1, i++
MasterTermSend ==
    /\ pc[0] = "term"
    /\ CanSendToWorker(TermDest)
    /\ chan' = [chan EXCEPT ![TermDest] = Append(@, idx[0])]
    /\ sentLog' = Append(sentLog, [to |-> TermDest, val |-> idx[0],
                                   phase |-> "term"])
    /\ i' = i + 1
    /\ pc' = [pc EXCEPT ![0] = IF i + 1 < num_procs THEN "term"
                               ELSE "finalize"]
    /\ UNCHANGED <<config, tables, reported, rec,
                   fs, faults, idx, status, rep, ackLog, recvLog,
                   reports, calls>>

\* clgrp_ell_main.c:94, 142-144: "All files processed.", MPI_Finalize
MasterFinalize ==
    /\ pc[0] = "finalize"
    /\ pc' = [pc EXCEPT ![0] = "done"]
    /\ status' = [status EXCEPT ![0] = 0]
    /\ UNCHANGED <<config, tables, reported, rec,
                   fs, faults, i, idx, chan, rep, hist>>

(* ------------------------------ workers ------------------------------- *)
\* clgrp_ell_main.c:98-128: the startup code of a worker
BuildTables(w) ==
    /\ h_max_factors' = [h_max_factors EXCEPT ![w] = Startup[par].h_max_factors]
    /\ h_factors' = [h_factors EXCEPT ![w] = Startup[par].h_factors]
    /\ builds' = [builds EXCEPT ![w] = @ + 1]

\* clgrp_ell_main.c:14-45 and 98-128, rank w: the argument check, then
\* the sieve and the factor table
WorkerStart(w) ==
    /\ pc[w] = "start"
    /\ IF argc # ArgcExpected
       THEN /\ pc' = [pc EXCEPT ![w] = "exited"]
            /\ status' = [status EXCEPT ![w] = 1]
            /\ UNCHANGED tables
       ELSE /\ pc' = [pc EXCEPT ![w] = "recv"]
            /\ BuildTables(w)
            /\ UNCHANGED status
    /\ UNCHANGED <<config, reported, rec, fs, faults, i, idx, chan, rep, hist>>

\* clgrp_ell_main.c:132 and 138, with the loop test of line 134 and, on
\* the sentinel, MPI_Finalize and return 0
WorkerRecv(w) ==
    /\ pc[w] = "recv"
    /\ chan[w] # <<>>
    /\ idx' = [idx EXCEPT ![w] = Head(chan[w])]
    /\ chan' = [chan EXCEPT ![w] = Tail(@)]
    /\ recvLog' = [recvLog EXCEPT ![w] = Append(@, Head(chan[w]))]
    /\ pc' = [pc EXCEPT ![w] = WorkerAfterRecv(Head(chan[w]))]
    /\ status' = [status EXCEPT ![w] =
                    IF WorkerAfterRecv(Head(chan[w])) = "done" THEN 0 ELSE @]
    /\ UNCHANGED <<config, tables, reported, rec,
                   fs, faults, i, rep, sentLog, ackLog, reports,
                   calls>>

\* what calls[w] keeps of a call: the index, the result r of
\* process_clgrp_file without the folder, and whether the folder changed
CallRecord(index, f, r) ==
    [index |-> index, ret |-> r.ret, popen |-> r.popen, htab |-> r.htab,
     mkdir |-> r.mkdir, fopen |-> r.fopen, oracle |-> r.oracle,
     gzip |-> r.gzip, fault |-> r.fault, changed |-> (r.fs # f),
     htab_init |-> r.htab_init, bound |-> r.bound, infd |-> r.infd]

\* one call process_clgrp_file(index, ...) by rank w: its effect on the
\* folder, recorded in calls[w]
Call(w, index) ==
    \E e \in Envs :
       LET r == process_clgrp_file(index, fs, e)
       IN  /\ r.fault => faults < MaxFaults
           /\ fs' = r.fs
           /\ faults' = IF r.fault THEN faults + 1 ELSE faults
           /\ calls' = [calls EXCEPT ![w] =
                          Append(@, CallRecord(index, fs, r))]

\* clgrp_ell_main.c:136: the call of process_clgrp_file
WorkerProcess(w) ==
    /\ pc[w] = "process"
    /\ Call(w, idx[w])
    /\ pc' = [pc EXCEPT ![w] = WorkerAfterProcess(Last(calls'[w]).ret)]
    /\ status' = [status EXCEPT ![w] =
                    IF WorkerAfterProcess(Last(calls'[w]).ret) = "exited"
                    THEN 1 ELSE @]
    /\ h_factors' = [h_factors EXCEPT ![w] = factors_after_call(@)]
    /\ UNCHANGED <<config, h_max_factors, builds, reported, rec, i, idx,
                   chan, rep, sentLog, ackLog, recvLog, reports>>

\* clgrp_ell_main.c:137: report completion, the payload is myrank
WorkerSend(w) ==
    /\ pc[w] = "send"
    /\ CanSendToMaster
    /\ rep' = [rep EXCEPT ![w] = Append(@, w)]
    /\ reports' = [reports EXCEPT ![w] = @ + 1]
    /\ pc' = [pc EXCEPT ![w] = "recv"]
    /\ UNCHANGED <<config, tables, reported, rec,
                   fs, faults, i, idx, status, chan, sentLog, ackLog,
                   recvLog, calls>>

Master ==
    \/ MasterArgs
    \/ MasterVerify
    \/ MasterSize
    \/ MasterInitSend
    \/ MasterDistRecv
    \/ MasterDistSend
    \/ MasterTermSend
    \/ MasterFinalize

Worker(w) ==
    \/ WorkerStart(w)
    \/ WorkerRecv(w)
    \/ WorkerProcess(w)
    \/ WorkerSend(w)

Next == Master \/ \E w \in WorkerRanks : Worker(w)

\* the program under either completion mode of MPI_Send
Spec == Init /\ [][Next]_vars

\* every process that can take a step eventually takes one
Fairness == WF_vars(Master) /\ \A w \in WorkerRanks : WF_vars(Worker(w))

FairSpec == Spec /\ Fairness

\* the program on a library that buffers the one-int messages
InitEager == Init /\ sync = FALSE

FairSpecEager == InitEager /\ [][Next]_vars /\ Fairness

(* ---------------------------- file harness ---------------------------- *)
\* process_clgrp_file applied directly, as rank 1 would call it, to any
\* index in any order: no scheduler runs
InitFile ==
    /\ Init
    /\ argc = ArgcExpected
    /\ size = 2
    /\ files = MaxF
    /\ sync = FALSE

FileCall ==
    /\ Len(calls[1]) < MaxCalls
    /\ \E index \in FileIdx : Call(1, index)
    /\ UNCHANGED <<config, tables, reported, rec, pc, i, idx, status, chan,
                   rep, sentLog, ackLog, recvLog, reports>>

NextFile == FileCall

SpecFile == InitFile /\ [][NextFile]_vars

(* --------------------------- record harness --------------------------- *)
\* the record loop of process_clgrp_file followed line by line, as rank 1
\* runs it after its startup: no scheduler runs
\* what fgets and strtok make of an input line: the integer fields found
\* (none on a blank line, one when the class number is missing)
LineSet == {<<>>, <<7>>, <<5, 12>>, <<1, 1>>, <<3, 5>>, <<2, 40>>}

\* what compute_group_bjt leaves in result[1 .. rank]
OracleResults == {<<3>>, <<4, 2>>}

\* what a read of h_factors[h] outside the table can produce: a fault that
\* ends the process, or whatever the memory there holds
Garbage ==
    { [fault |-> TRUE, row |-> <<>>],
      [fault |-> FALSE, row |-> <<>>],
      [fault |-> FALSE, row |-> <<7>>] }

InitRecord ==
    /\ argc = ArgcExpected
    /\ size = 2
    /\ files = 2
    /\ sync = FALSE
    /\ fs = [inp |-> {0, 1}, gz |-> {}, raw |-> {}, dir |-> FALSE]
    /\ faults = 0
    /\ pc = [r \in Procs |-> IF r < size THEN "start" ELSE "absent"]
    /\ i = 0
    /\ idx = [r \in Procs |-> 0]
    /\ status = [r \in Procs |-> -1]
    /\ chan = [w \in WorkerRanks |-> <<>>]
    /\ rep = [w \in WorkerRanks |-> <<>>]
    /\ sentLog = <<>>
    /\ ackLog = <<>>
    /\ recvLog = [w \in WorkerRanks |-> <<>>]
    /\ reports = [w \in WorkerRanks |-> 0]
    /\ calls = [w \in WorkerRanks |-> <<>>]
    /\ par \in RecPars
    /\ h_factors = [w \in WorkerRanks |-> <<>>]
    /\ h_max_factors = [w \in WorkerRanks |-> 0]
    /\ builds = [w \in WorkerRanks |-> 0]
    /\ reported = <<>>
    /\ rec = RecIdle

\* reproduce_loop.c:148-160: the locals before the first fgets
RecOpen ==
    /\ rec.state = "idle"
    /\ pc[1] = "recv"
    /\ \E index \in 0 .. files - 1 :
         rec' = [state |-> "open", index |-> index,
                 D |-> start_D(index),
                 log |-> <<>>, out |-> <<>>]
    /\ UNCHANGED <<config, tables, reported, fs, faults, pc, i, idx, status,
                   chan, rep, hist>>

\* reproduce_loop.c:167-175: a line with fewer than two fields is passed
\* over by  continue
ShortLine(line) ==
    [line |-> line, short |-> TRUE, dist |-> 0, D_in |-> rec.D,
     D |-> rec.D, kron |-> 0, h |-> 0, D_sub |-> 0, looked |-> FALSE,
     inrange |-> TRUE, fault |-> FALSE, row |-> <<>>,
     init_pow |-> 1, oracle |-> <<>>, returned |-> <<>>, result |-> <<>>]

\* reproduce_loop.c:176-246: the body of the loop for a line holding dist
\* and h; tab is the factor table, g what an out-of-range read yields and
\* res what the oracle leaves in result
FullLine(line, tab, g, res) ==
    LET dist     == line[1]
        D        == next_D(rec.D, dist)
        kron     == kronecker_symbol(-D, par.ell)
        h        == line[2] * h_multiplier(kron, par.ell)
        D_sub    == D * D_multiplier(kron, par.ell)
        inrange  == h \in DOMAIN tab
        fault    == ~inrange /\ g.fault
        row      == IF inrange THEN tab[h] ELSE g.row
        init_pow == compute_init_pow(h, row)
    IN  [line |-> line, short |-> FALSE, dist |-> dist, D_in |-> rec.D,
         D |-> D, kron |-> kron, h |-> h, D_sub |-> D_sub,
         looked |-> TRUE, inrange |-> inrange,
         fault |-> fault, row |-> row, init_pow |-> init_pow,
         oracle |-> IF fault THEN <<>> ELSE <<-D_sub, init_pow, h>>,
         returned |-> IF fault THEN <<>> ELSE res,
         result |-> IF fault THEN <<>> ELSE rescale(res, init_pow)]

\* mutant: an output line written for every line read
emits_always(e) == TRUE

\* reproduce_loop.c:167-175, 246: fputs is reached by every line that was
\* not passed over and whose analysis came back
emits(e) == ~(e.short \/ e.fault)

\* reproduce_loop.c:233-244: dist, kron and result[1 .. output_rank]
OutputLine(e) == [dist |-> e.dist, kron |-> e.kron, inv |-> e.result]

\* reproduce_loop.c:164-247: one turn of the loop, fgets included
RecLine ==
    /\ rec.state = "open"
    /\ Len(rec.log) < MaxLines
    /\ \E line \in LineSet, g \in Garbage, res \in OracleResults :
         LET e == IF Len(line) < 2 THEN ShortLine(line)
                  ELSE FullLine(line, h_factors[1], g, res)
         IN  rec' = [rec EXCEPT
                       !.state = IF e.fault THEN "fault" ELSE @,
                       !.D = e.D,
                       !.log = Append(@, e),
                       !.out = IF emits(e) THEN Append(@, OutputLine(e))
                               ELSE @]
    /\ h_factors' = [h_factors EXCEPT ![1] = factors_after_call(@)]
    /\ UNCHANGED <<config, h_max_factors, builds, reported,
                   fs, faults, pc, i, idx, status,
                   chan, rep, hist>>

\* reproduce_loop.c:164, 249-257: fgets returns NULL, the streams are closed
RecClose ==
    /\ rec.state = "open"
    /\ rec' = [rec EXCEPT !.state = "closed"]
    /\ UNCHANGED <<config, tables, reported, fs, faults, pc, i, idx, status,
                   chan, rep, hist>>

NextRecord == WorkerStart(1) \/ RecOpen \/ RecLine \/ RecClose

SpecRecord == InitRecord /\ [][NextRecord]_vars

(* ======================== properties of the code ====================== *)
\* the run is past every configuration check: six user arguments, every
\* input file present, at least one worker
MissingInput == \E k \in 0 .. files - 1 : k \notin fs.inp

Configured ==
    /\ argc = ArgcExpected
    /\ ~MissingInput
    /\ num_procs >= 1

\* the workers of this run
Workers == 1 .. num_procs

\* positions of sentLog at which value k was sent
SendsOf(k) == {n \in 1 .. Len(sentLog) : sentLog[n].val = k}

\* the file-index sends of rank 0, in send order
IndexSends == SelectSeq(sentLog, LAMBDA m : m.val # Sentinel)

\* positions of recvLog[w] at which worker w received the sentinel
SentinelsReceived(w) ==
    {n \in 1 .. Len(recvLog[w]) : recvLog[w][n] = Sentinel}

\* a rank has left main
Ended(r) == pc[r] \in {"done", "exited", "aborted"}

(* ---------------------------------------------------------------------- *)
\* definitions for C1
C1Pre == Configured /\ num_procs < files

C1Safe ==
    /\ \A k \in 0 .. files - 1 :
         /\ Cardinality(SendsOf(k)) <= 1
         /\ \A n \in SendsOf(k) : sentLog[n].to \in Workers
    /\ \A w \in Workers : Cardinality(SentinelsReceived(w)) <= 1

C1Done ==
    /\ \A k \in 0 .. files - 1 : Cardinality(SendsOf(k)) = 1
    /\ \A w \in Workers : Cardinality(SentinelsReceived(w)) = 1

InitSends == SelectSeq(sentLog, LAMBDA m : m.phase = "init")

\* C2: every file index sent lies in [0, files), and once the first loop
\* is over its sends are exactly index k - 1 to worker k for
\* k = 1..min(W, F).
C2_InitialDistribution ==
    /\ \A n \in 1 .. Len(IndexSends) : IndexSends[n].val \in 0 .. files - 1
    /\ pc[0] \in {"dist_recv", "dist_send", "term", "finalize", "done"} =>
         InitSends = [k \in 1 .. Min(num_procs, files) |->
                        [to |-> k, val |-> k - 1, phase |-> "init"]]

(* ---------------------------------------------------------------------- *)
\* C3: once a sentinel has been sent, rank 0 has received as many reports
\* as it has sent file indices; once rank 0 is done, no report is in flight.
C3_SentinelAfterAllAcked ==
    /\ SendsOf(Sentinel) # {} => Len(ackLog) = Len(IndexSends)
    /\ pc[0] = "done" => \A w \in WorkerRanks : rep[w] = <<>>

(* ---------------------------------------------------------------------- *)
\* definitions for C4
AllTerminated == \A r \in 0 .. num_procs : pc[r] = "done"

\* C4: a configured run under rendezvous sends eventually has every rank
\* of the run at the end of main.
C4_TerminatesUnderRendezvous == <>((sync /\ Configured) => AllTerminated)

(* ---------------------------------------------------------------------- *)
\* definitions for C5
IndexSendsTo(w) ==
    SelectSeq(sentLog, LAMBDA m : m.to = w /\ m.val # Sentinel)

\* the indices sent to worker w beyond those it has reported complete
Held(w) ==
    {IndexSendsTo(w)[n].val : n \in reports[w] + 1 .. Len(IndexSendsTo(w))}

DistSends == SelectSeq(sentLog, LAMBDA m : m.phase = "dist")

\* C5: each worker has at most one index sent and not yet reported, the
\* held sets of two workers are disjoint, every report carries its sender's
\* rank, and the n-th send of the second loop goes to the n-th payload
\* rank 0 received.
C5_OneIndexPerWorker ==
    /\ \A w \in WorkerRanks :
         /\ Len(IndexSendsTo(w)) - reports[w] \in {0, 1}
         /\ \A n \in 1 .. Len(rep[w]) : rep[w][n] = w
         /\ \A v \in WorkerRanks \ {w} : Held(v) \cap Held(w) = {}
    /\ Len(DistSends) <= Len(ackLog)
    /\ \A n \in 1 .. Len(DistSends) : DistSends[n].to = ackLog[n]

C5_Witness ==
    /\ Len(DistSends) >= 1
    /\ ackLog[1] = 2
    /\ Held(1) = {0}
    /\ Held(2) = {2}

(* ---------------------------------------------------------------------- *)
\* definitions for C6
NonSentinel(w) == SelectSeq(recvLog[w], LAMBDA v : v # Sentinel)

\* C6: the k-th call of a worker is for the k-th non-sentinel value it
\* received; it reports only returned calls, receives only with every call
\* reported, and after the sentinel is done with no further call or report.
C6_WorkerLoop ==
    \A w \in WorkerRanks :
      LET got == NonSentinel(w)
          n   == Len(calls[w])
      IN  /\ n <= Len(got)
          /\ \A k \in 1 .. n : calls[w][k].index = got[k]
          /\ reports[w] <= n
          /\ pc[w] = "process" => n = reports[w] /\ Len(got) = n + 1
          /\ pc[w] = "send" => n = reports[w] + 1 /\ Len(got) = n
          /\ pc[w] = "recv" => n = reports[w] /\ Len(got) = n
          /\ SentinelsReceived(w) # {} =>
               /\ pc[w] = "done"
               /\ Last(recvLog[w]) = Sentinel
               /\ Len(recvLog[w]) = n + 1
               /\ reports[w] = n

C6_Witness ==
    /\ pc[1] = "done"
    /\ Len(calls[1]) = 2
    /\ pc[2] = "send"

(* ---------------------------------------------------------------------- *)
\* C7: the n-th file index rank 0 sends is n - 1, whatever the order in
\* which the reports arrive.
C7_IndicesIncreasing ==
    \A n \in 1 .. Len(IndexSends) : IndexSends[n].val = n - 1

C7_Witness ==
    /\ Len(IndexSends) = MaxF
    /\ Len(ackLog) >= 1
    /\ ackLog[1] = 2

(* ---------------------------------------------------------------------- *)
\* definitions for C8
SomeFailed ==
    \E w \in WorkerRanks :
      \E k \in 1 .. Len(calls[w]) : calls[w][k].ret \in IOFailed

AllIndicesSent == \A k \in 0 .. files - 1 : SendsOf(k) # {}

C8Safe ==
    \A w \in WorkerRanks :
      (Len(calls[w]) > 0 /\ Last(calls[w]).ret \in IOFailed) =>
        /\ pc[w] \in {"send", "recv", "process", "done"}
        /\ status[w] \in {-1, 0}

\* every call that failed has been reported and its worker has received
\* again
FailuresReported ==
    \A w \in WorkerRanks :
      \A k \in 1 .. Len(calls[w]) :
        calls[w][k].ret \in IOFailed =>
          /\ reports[w] >= k
          /\ Len(recvLog[w]) > k

Skipped(index) ==
    [index |-> index, ret |-> "skipped", popen |-> FALSE, htab |-> 0,
     mkdir |-> FALSE, fopen |-> FALSE, oracle |-> 0, gzip |-> FALSE,
     fault |-> FALSE, changed |-> FALSE, htab_init |-> 0, bound |-> 0,
     infd |-> 0]

C9Step ==
    \A w \in WorkerRanks :
      (calls'[w] # calls[w] /\ Last(calls'[w]).index \in fs.gz) =>
        /\ fs' = fs
        /\ Last(calls'[w]) = Skipped(Last(calls'[w]).index)

C9Twice ==
    \A w \in WorkerRanks :
      \A k \in 1 .. Len(calls[w]) - 1 :
        ( /\ calls[w][k].ret = "done"
          /\ ~calls[w][k].fault
          /\ calls[w][k + 1].index = calls[w][k].index ) =>
        calls[w][k + 1] = Skipped(calls[w][k].index)

\* C9: every call on an index whose compressed output exists is the no-op
\* Skipped and leaves the folder as it was, and a call that follows a
\* successful call on the same index is that no-op.
C9_SkipExisting == [][C9Step]_vars /\ []C9Twice

C9_Witness ==
    /\ Len(calls[1]) = 2
    /\ calls[1][1].ret = "done"
    /\ calls[1][1].oracle = 1
    /\ calls[1][1].changed
    /\ calls[1][2] = Skipped(calls[1][1].index)

(* ---------------------------------------------------------------------- *)
\* definitions for C10
ConfigError ==
    \/ argc # ArgcExpected
    \/ MissingInput
    \/ size < 2

\* C10: under a configuration error nothing is sent, received or
\* processed, no rank ends with status 0, and rank 0 has ended or can step.
C10_ConfigErrorsAbort ==
    ConfigError =>
      /\ sentLog = <<>>
      /\ \A w \in WorkerRanks : recvLog[w] = <<>> /\ calls[w] = <<>>
      /\ \A r \in Procs : status[r] \in {-1, 1}
      /\ pc[0] # "done"
      /\ Ended(0) \/ ENABLED Master

C10_Witness ==
    /\ argc = ArgcExpected
    /\ MissingInput
    /\ 0 \in fs.inp
    /\ size = MaxW + 1
    /\ status = [r \in Procs |-> 1]

(* ---------------------------------------------------------------------- *)
\* definitions for the record analyser (C11 .. C16)
\* the lines read so far by the call followed in the record harness
Log == IF rec.state = "idle" THEN <<>> ELSE rec.log

\* positions of Log holding a line with both fields
Records2 == {n \in 1 .. Len(Log) : Len(Log[n].line) >= 2}

\* positions of Log whose analysis reached the oracle and came back
Analysed == {n \in Records2 : ~Log[n].fault}

Rank(n) == Len(Log[n].returned)

\* C11 as stated: the last entry, result[rank], is the one multiplied by
\* init_pow, the others are emitted as returned.
C11_LastFactorRescaled ==
    \A n \in Analysed :
       /\ Log[n].result[Rank(n)] = Log[n].returned[Rank(n)] * Log[n].init_pow
       /\ \A r \in 1 .. Rank(n) - 1 : Log[n].result[r] = Log[n].returned[r]

\* C11: the first entry, result[1], is the one multiplied by init_pow, for
\* every rank >= 1; the entries 2 .. rank are emitted as returned.
C11_FirstFactorRescaled ==
    \A n \in Analysed :
       /\ Rank(n) >= 1
       /\ Len(Log[n].result) = Rank(n)
       /\ Log[n].result[1] = Log[n].returned[1] * Log[n].init_pow
       /\ \A r \in 2 .. Rank(n) : Log[n].result[r] = Log[n].returned[r]
       /\ \E k \in 1 .. Len(rec.out) : rec.out[k].inv = Log[n].result

C11_Witness ==
    \E n \in Analysed :
       /\ Rank(n) = 2
       /\ Log[n].init_pow > 1
       /\ Log[n].inrange

(* ---------------------------------------------------------------------- *)
\* C12: the factor table is read only at indices inside it.
C12_NoLookupOutOfRange ==
    \A n \in 1 .. Len(Log) : Log[n].looked => Log[n].inrange

(* ---------------------------------------------------------------------- *)
\* definitions for C13
RECURSIVE Product(_)
Product(S) ==
    IF S = {} THEN 1
    ELSE LET p == CHOOSE q \in S : TRUE IN p * Product(S \ {p})

PrimeDivisors(h) == {p \in 2 .. h : IsPrime(p) /\ h % p = 0}

\* the primes dividing h exactly once
SimplePrimes(h) == {p \in PrimeDivisors(h) : h % (p * p) # 0}

\* the orders in which a row can list its primes
Orders(row) ==
    {[k \in 1 .. Len(row) |-> row[f[k]]] :
        f \in Permutations(1 .. Len(row))}

\* row lists exactly the distinct primes dividing h
RowExact(h, row) ==
    /\ {row[k] : k \in 1 .. Len(row)} = PrimeDivisors(h)
    /\ Len(row) = Cardinality(PrimeDivisors(h))

\* C13: for h_ext >= 1 whose row lists exactly the distinct primes dividing
\* h_ext, init_pow is the product of the primes dividing h_ext exactly once
\* (1 if there is none), in whatever order the row lists them.
C13_InitPowSquareFreePart ==
    \A n \in Records2 :
       (Log[n].h >= 1 /\ RowExact(Log[n].h, Log[n].row)) =>
          /\ Log[n].init_pow = Product(SimplePrimes(Log[n].h))
          /\ \A row \in Orders(Log[n].row) :
                compute_init_pow(Log[n].h, row) = Log[n].init_pow

C13_Witness ==
    \E n \in Records2 :
       /\ Log[n].inrange
       /\ RowExact(Log[n].h, Log[n].row)
       /\ Len(Log[n].row) = 3
       /\ Cardinality(SimplePrimes(Log[n].h)) = 2

(* ---------------------------------------------------------------------- *)
\* C14: the symbol of -D at ell is 0, -1 or 1 and selects one case:
\* 0: h_ext = base_h ell, D_sub = D ell^2; -1: h_ext = base_h ell (ell + 1),
\* D_sub = D ell^4; 1: h_ext = base_h ell (ell - 1), D_sub = D ell^4; the
\* oracle is called with (-D_sub, init_pow, h_ext).
C14_SplittingType ==
    \A n \in Records2 :
       LET e  == Log[n]
           l  == par.ell
           l2 == l * l
       IN  /\ e.kron = kronecker_symbol(-e.D, l)
           /\ e.kron \in {0, -1, 1}
           /\ e.kron = 0 => e.h = e.line[2] * l /\ e.D_sub = e.D * l2
           /\ e.kron = -1 =>
                 e.h = e.line[2] * l * (l + 1) /\ e.D_sub = e.D * l2 * l2
           /\ e.kron = 1 =>
                 e.h = e.line[2] * l * (l - 1) /\ e.D_sub = e.D * l2 * l2
           /\ n \in Analysed => e.oracle = <<-e.D_sub, e.init_pow, e.h>>

C14_Witness ==
    /\ Len(Log) = 2
    /\ Analysed = {1, 2}
    /\ Log[1].kron = 1
    /\ Log[2].kron = -1
    /\ par.ell > 2

(* ---------------------------------------------------------------------- *)
\* definitions for C15
RECURSIVE SumDist(_)
SumDist(k) == IF k = 0 THEN 0
              ELSE SumDist(k - 1) +
                   (IF k \in Records2 THEN Log[k].line[1] ELSE 0)

\* the output line of the analysed line at position n of Log
OutputOf(n) == rec.out[Cardinality({k \in Analysed : k <= n})]

\* the record of the example: D = 100, distance 5, m = 8, ell = 3,
\* base_h = 12
Example(n) ==
    /\ Log[n].D_in = 100
    /\ Log[n].line = <<5, 12>>
    /\ par.m = 8
    /\ par.ell = 3

\* C15: D starts at index D_total m + a and after every record is the
\* start plus m times the sum of the distances read; the example record
\* gives D = 140, symbol 1, h_ext = 72, D_sub = 11340 and an output line
\* beginning with 5 and 1.
C15_RunningDiscriminant ==
    rec.state # "idle" =>
      /\ rec.D = rec.index * D_total * par.m + par.a
                   + par.m * SumDist(Len(Log))
      /\ \A n \in 1 .. Len(Log) :
            /\ Log[n].D = rec.index * D_total * par.m + par.a
                            + par.m * SumDist(n)
            /\ Example(n) =>
                 /\ Log[n].D = 140
                 /\ Log[n].kron = 1
                 /\ Log[n].h = 72
                 /\ Log[n].D_sub = 11340
                 /\ OutputOf(n).dist = 5
                 /\ OutputOf(n).kron = 1

C15_Witness ==
    /\ Len(Log) = 2
    /\ Analysed = {1, 2}
    /\ Example(1)
    /\ Log[1].D = 140
    /\ OutputOf(1).dist = 5
    /\ rec.D = 140 + par.m * Log[2].line[1]

RECURSIVE AnalysedUpTo(_)
AnalysedUpTo(k) ==
    IF k = 0 THEN <<>>
    ELSE IF k \in Analysed THEN Append(AnalysedUpTo(k - 1), k)
    ELSE AnalysedUpTo(k - 1)

VerifyDone == argc = ArgcExpected /\ pc[0] \notin {"start", "verify"}

\* the input indices below files that are missing
Missing == {k \in 0 .. files - 1 : k \notin fs.inp}

\* C17: the result is true exactly when every index below files has its
\* input file (rank 0 goes on); otherwise it is false (rank 0 aborts) and
\* the one path reported is that of the lowest missing index.
C17_VerifyInputs ==
    /\ ~VerifyDone => reported = <<>>
    /\ (VerifyDone /\ Missing = {}) =>
          pc[0] # "aborted" /\ reported = <<>>
    /\ (VerifyDone /\ Missing # {}) =>
          /\ pc[0] = "aborted"
          /\ Len(reported) = 1
          /\ reported[1] \in Missing
          /\ \A k \in Missing : reported[1] <= k

C17_Witness ==
    /\ VerifyDone
    /\ Cardinality(Missing) = 2
    /\ 0 \in fs.inp
    /\ reported = <<1>>
    /\ pc[0] = "aborted"

(* ---------------------------------------------------------------------- *)
\* definitions for C18
\* worker w is past its startup code
Started(w) == pc[w] \in {"recv", "process", "send", "done"}

C18Built ==
    \A w \in WorkerRanks :
       /\ builds[w] <= 1
       /\ Started(w) => builds[w] = 1 /\ h_factors[w] # <<>>
       /\ (recvLog[w] # <<>> \/ calls[w] # <<>>) => builds[w] = 1

C18Step ==
    \A w \in WorkerRanks :
       /\ builds[w] = 1 => h_factors'[w] = h_factors[w]
       /\ builds[w] = 1 => builds'[w] = 1
       /\ calls'[w] # calls[w] => h_factors'[w] = h_factors[w]

\* C18: a worker builds its factor table once, before its first receive,
\* and no later step, a process_clgrp_file call in particular, changes an
\* entry of it.
C18_FactorTableBuiltOnce == []C18Built /\ [][C18Step]_vars

C18_Witness ==
    \E w \in WorkerRanks :
       /\ Len(calls[w]) = 2
       /\ calls[w][1].oracle = 1
       /\ builds[w] = 1
       /\ h_factors[w][6] = <<2, 3>>
       /\ pc[w] = "done"

(* ---------------------------------------------------------------------- *)
\* definitions for C19
\* the product of the first k primes
RECURSIVE Primorial(_)
Primorial(k) == IF k = 0 THEN 1 ELSE Primorial(k - 1) * prime_sieve(13)[k]

\* the counts considered: the product of the first six primes is 30030
Counts == 0 .. Len(prime_sieve(13))

\* the smallest k with the product of the first k primes above n
SmallestAbove(n) ==
    CHOOSE k \in Counts :
       Primorial(k) > n /\ \A j \in 0 .. k - 1 : Primorial(j) <= n

\* the smallest k with the product of the first k primes at least n
SmallestReaching(n) ==
    CHOOSE k \in Counts :
       Primorial(k) >= n /\ \A j \in 0 .. k - 1 : Primorial(j) < n

\* C19 as stated: h_max_factors is the smallest k for which the product
\* of the first k primes exceeds h_max.
C19_SmallestExceeding ==
    \A w \in WorkerRanks :
       builds[w] = 1 => h_max_factors[w] = SmallestAbove(h_max)

\* C19: h_max_factors is one more than the smallest k for which the
\* product of the first k primes is at least h_max.
C19_OneMoreThanSmallestReaching ==
    \A w \in WorkerRanks :
       builds[w] = 1 => h_max_factors[w] = SmallestReaching(h_max) + 1

C19_Witness ==
    /\ builds[1] = 1
    /\ h_max_factors[1] = SmallestAbove(h_max) + 1
    /\ rec.state = "closed"

(* ---------------------------------------------------------------------- *)
\* definitions for C20
\* the calls of w that got as far as htab_init
Opened(w) ==
    {n \in 1 .. Len(calls[w]) : calls[w][n].ret \in {"nooutput", "done"}}

RECURSIVE InitsUpTo(_, _)
InitsUpTo(w, n) ==
    IF n = 0 THEN 0 ELSE InitsUpTo(w, n - 1) + calls[w][n].htab_init

\* C20 as stated: R and Q are created once per worker, whatever the number
\* of files it processes.
C20_ScratchCreatedOnce ==
    \A w \in WorkerRanks : InitsUpTo(w, Len(calls[w])) <= 2

\* C20: every call that opens its input creates R and Q anew, sized from the
\* bound of its own file, (index + 1) D_total m ell^4; no other call
\* creates a table.
C20_ScratchPerFile ==
    \A w \in WorkerRanks :
       \A n \in 1 .. Len(calls[w]) :
          IF n \in Opened(w)
          THEN /\ calls[w][n].htab_init = 2
               /\ calls[w][n].bound =
                     -((calls[w][n].index + 1) * D_total * par.m
                         * par.ell * par.ell * par.ell * par.ell)
          ELSE calls[w][n].htab_init = 0

C20_Witness ==
    /\ Len(calls[1]) = 2
    /\ Opened(1) = {1, 2}
    /\ calls[1][1].bound # calls[1][2].bound
    /\ InitsUpTo(1, 2) = 4

(* ---------------------------------------------------------------------- *)
\* definitions for C21
\* the hash tables of w still initialised after its first n calls
RECURSIVE LiveUpTo(_, _)
LiveUpTo(w, n) ==
    IF n = 0 THEN 0 ELSE LiveUpTo(w, n - 1) + calls[w][n].htab

\* C21: every call of process_clgrp_file that initialised R and Q returns
\* with both cleared and its input stream closed, so that no worker holds a
\* live hash table between files.
C21_NoLiveWorkspace ==
    \A w \in WorkerRanks :
       /\ \A n \in 1 .. Len(calls[w]) :
             calls[w][n].htab_init > 0 =>
                calls[w][n].htab = 0 /\ calls[w][n].infd = 0
       /\ LiveUpTo(w, Len(calls[w])) = 0

(* ---------------------------------------------------------------------- *)
\* definitions for C22
\* positions of sentLog at which rank 0 sent the sentinel
SentinelSends == {n \in 1 .. Len(sentLog) : sentLog[n].val = Sentinel}

\* positions of sentLog after position n
After(n) == (n + 1) .. Len(sentLog)

\* C22: once rank 0 has sent a worker the sentinel it sends that worker
\* nothing more, every send that follows a sentinel is a sentinel, every
\* file index 0 .. files - 1 has been sent before the first sentinel, and
\* no worker receives anything after the sentinel.
C22_SentinelLast ==
    /\ \A n \in SentinelSends :
          /\ \A k \in After(n) : sentLog[k].to # sentLog[n].to
          /\ \A k \in After(n) : sentLog[k].val = Sentinel
          /\ \A f \in 0 .. files - 1 :
                \E k \in 1 .. n - 1 : sentLog[k].val = f
    /\ \A w \in WorkerRanks :
          \A n \in 1 .. Len(recvLog[w]) :
             recvLog[w][n] = Sentinel => n = Len(recvLog[w])

C22_Witness ==
    /\ num_procs = 2
    /\ files = 3
    /\ Len(sentLog) = 5
    /\ SentinelSends = {4, 5}
    /\ sentLog[3].to = 2
    /\ recvLog[2] = <<1, 2, Sentinel>>
    /\ recvLog[1] = <<0, Sentinel>>
    /\ pc[0] = "done"

=============================================================================
